---------------------------- MODULE Spec2Model ----------------------------
(***************************************************************************)
(* A model of pyfronius: the Datamanager client (datamanager.py) and the   *)
(* Solar API dialects V0 / V1 with the powerflow unpacker (solarapi.py).   *)
(*                                                                         *)
(* Modelling notes.                                                        *)
(*  - JSON values are tagged records: Null, Num(m, e) (the decimal         *)
(*    m * 10^-e), Str(s), Bool(b); a JSON object is a function from its    *)
(*    keys to values, an absent key is a key outside its DOMAIN.           *)
(*  - An operation's outcome is Return(value) or Raise(exception name).    *)
(*  - The dialect classes reach their client as self.session while their   *)
(*    constructor stores it as self.client, _unpack_item is declared       *)
(*    without its receiver, and the data store is named client.vfs in one  *)
(*    file and session.data in the other.  The model resolves these names  *)
(*    to the one client / store they denote and models the algorithms      *)
(*    behind them.                                                         *)
(***************************************************************************)
EXTENDS Integers, Sequences, FiniteSets, TLC

VARIABLES
  plugin,     \* DatamanagerClient._solar_api_plugin: NoPlugin or [kind, obj]
  api_base,   \* DatamanagerClient.api_base
  vfs,        \* the data store: path key -> data point
  nplugins,   \* dialect objects constructed so far (object identity)
  held,       \* the dialect object the caller got from solar_api, or NoPlugin
  sent,       \* HTTP requests issued by the last operation, in order
  last        \* the last operation: its name, inputs and outcome

vars == <<plugin, api_base, vfs, nplugins, held, sent, last>>

----------------------------------------------------------------------------
(* Bounds of the model *)

MaxTime == 2       \* time.time() takes values 1..MaxTime
MaxDev == 2        \* device ids in one response are "1".."MaxDev"

----------------------------------------------------------------------------
(* JSON values and Python's view of them *)

Null == [null |-> TRUE]
Num(m, e) == [num |-> m, exp |-> e]
Str(s) == [str |-> s]
Bool(b) == [bool |-> b]

IsNull(v) == DOMAIN v = {"null"}
IsNum(v) == DOMAIN v = {"num", "exp"}
IsStr(v) == DOMAIN v = {"str"}
IsBool(v) == DOMAIN v = {"bool"}

None == [none |-> TRUE]
Return(v) == [kind |-> "return", value |-> v]
Raise(e) == [kind |-> "raise", exc |-> e]
Raised(o) == o.kind = "raise"
Returned(o) == o.kind = "return"

\* bool(v): None, 0, 0.0, False, "" and empty containers are falsy.
Truthy(v) ==
  IF IsNull(v) THEN FALSE
  ELSE IF IsNum(v) THEN v.num # 0
  ELSE IF IsStr(v) THEN v.str # ""
  ELSE IF IsBool(v) THEN v.bool
  ELSE DOMAIN v # {}

\* dict.get(key): the value, or None (here Null) when the key is absent.
Get(d, key) == IF key \in DOMAIN d THEN d[key] ELSE Null

\* dict.get(key, {}): the value, or an empty dict when the key is absent.
GetOrEmpty(d, key) == IF key \in DOMAIN d THEN d[key] ELSE <<>>

\* os.path.join(a, b) for a relative b.
join(a, b) == a \o "/" \o b

\* str(x) of a JSON scalar, as used to look a version up.
PyStr(v) ==
  IF IsNum(v) THEN (IF v.exp = 0 THEN ToString(v.num) ELSE "float")
  ELSE IF IsStr(v) THEN v.str
  ELSE IF IsBool(v) THEN (IF v.bool THEN "True" ELSE "False")
  ELSE "None"

----------------------------------------------------------------------------
(* URLs: an origin and a path split at "/" (a directory path ends in "") *)

Url(origin, path) == [origin |-> origin, path |-> path]
AbsRef(segs) == [abs |-> TRUE, segs |-> segs]
RelRef(segs) == [abs |-> FALSE, segs |-> segs]

\* urllib.parse.urljoin(base, ref) for a path reference.
urljoin(base, ref) ==
  IF ref.segs = <<>> THEN base
  ELSE IF ref.abs THEN Url(base.origin, ref.segs)
  ELSE IF base.path = <<>> THEN Url(base.origin, ref.segs)
  ELSE Url(base.origin, SubSeq(base.path, 1, Len(base.path) - 1) \o ref.segs)

datalogger_url == Url("http://datamanager", <<>>)
VersionEndpoint == AbsRef(<<"solar_api", "GetAPIVersion.cgi">>)
Endpoint(name) == RelRef(<<name>>)

Request(base, ref, params) == [url |-> urljoin(base, ref), params |-> params]
IsVersionRequest(r) == r.url.path = VersionEndpoint.segs
NoParams == <<>>

----------------------------------------------------------------------------
(* The device's answer to one HTTP GET *)

ConnError == [reply |-> "conn_error"]          \* session.get raises
NotJson(status) == [reply |-> "not_json", status |-> status]
Json(status, doc) == [reply |-> "json", status |-> status, doc |-> doc]

\* DatamanagerClient.raw_request: the decoded document, None, or the
\* transport's exception (session.get is outside the try block).
raw_request(reply) ==
  IF reply.reply = "conn_error" THEN Raise("ClientError")
  ELSE IF reply.reply = "not_json" THEN Return(None)
  ELSE IF ~Truthy(reply.doc) THEN Return(None)
  ELSE Return(reply.doc)

----------------------------------------------------------------------------
(* mappings.RequestStatusCodes: the status catalogue *)

\* RequestStatusCodes.status_ok(code): the code is in the success set.
status_ok(code) == code = 0

\* RequestStatusCodes.status_text(code): a text for every code, known or not.
status_text(code) ==
  IF code = 0 THEN "OKAY"
  ELSE IF code = 1 THEN "NotImplemented"
  ELSE "Unknown"

----------------------------------------------------------------------------
(* solarapi.ApiResponse *)

\* ApiResponse._unpack: head, status and body of the envelope, the status
\* extended in place with its text; any lookup that fails is re-raised.
ApiResponse(data) ==
  IF data = None THEN Raise("TypeError")
  ELSE IF "Head" \notin DOMAIN data THEN Raise("KeyError")
  ELSE IF "Status" \notin DOMAIN data.Head THEN Raise("KeyError")
  ELSE IF "Body" \notin DOMAIN data THEN Raise("KeyError")
  ELSE IF "Code" \notin DOMAIN data.Head.Status THEN Raise("KeyError")
  ELSE LET status == [Status_Text |-> status_text(data.Head.Status.Code),
                      Status_Descr |-> status_text(data.Head.Status.Code)]
                     @@ data.Head.Status
       IN Return([head |-> [Status |-> status] @@ data.Head,
                  status |-> status,
                  body |-> data.Body])

\* ApiResponse.ok
ok(resp) == status_ok(resp.status.Code)

----------------------------------------------------------------------------
(* datamanager.DatamanagerClient *)

\* The fields of the status that api_request's error log line reads.
ErrorLogFields == {"Status_Text", "Reason", "UserMessage"}

\* DatamanagerClient.api_request, given the device's answer: the response
\* object, None for a response that is not ok, or the exception raised.
api_request(reply) ==
  LET raw == raw_request(reply) IN
  IF Raised(raw) THEN raw
  ELSE LET resp == ApiResponse(raw.value) IN
       IF Raised(resp) THEN resp
       ELSE IF ~ok(resp.value)
            THEN IF ErrorLogFields \subseteq DOMAIN resp.value.status
                 THEN Return(None)
                 ELSE Raise("KeyError")
            ELSE resp

NoPlugin == [kind |-> "None", obj |-> 0]
Plugin(kind, n) == [kind |-> kind, obj |-> n]

\* A lookup that defaults to V0 for a version it does not know.
SOLAR_API_PLUGINS_default_v0(version) ==
  IF version = "1" THEN "V1" ELSE "V0"

\* SOLAR_API_PLUGINS.get(version)
SOLAR_API_PLUGINS(version) ==
  IF version = "0" THEN "V0" ELSE IF version = "1" THEN "V1" ELSE "None"

\* DatamanagerClient.link_solar_api_plugin, given the device's answer to the
\* version request: the client's fields afterwards and the outcome.
LinkResult(p, base, n, out) == [plugin |-> p, api_base |-> base, nplugins |-> n, out |-> out]

link_solar_api_plugin(reply) ==
  LET raw == raw_request(reply) IN
  IF Raised(raw) THEN LinkResult(plugin, api_base, nplugins, raw)
  ELSE
    LET api_info == raw.value IN
    IF api_info # None /\ "APIVersion" \notin DOMAIN api_info
    THEN LinkResult(plugin, api_base, nplugins, Return(FALSE))
    ELSE
      LET solarapi_plugin == IF api_info = None THEN SOLAR_API_PLUGINS("0")
                             ELSE SOLAR_API_PLUGINS(PyStr(api_info.APIVersion))
      IN
      IF solarapi_plugin = "None"
      THEN LinkResult(plugin, api_base, nplugins, Return(FALSE))
      ELSE
        LET bound == Plugin(solarapi_plugin, nplugins + 1) IN
        IF api_info = None \/ "BaseURL" \notin DOMAIN api_info
        THEN LinkResult(bound, api_base, nplugins + 1, Return(FALSE))
        ELSE LinkResult(bound, urljoin(api_base, api_info.BaseURL),
                        nplugins + 1, Return(TRUE))

\* An accessor that negotiates on every access, bound dialect or not.
solar_api_always_links(reply) ==
  LET l == link_solar_api_plugin(reply) IN
  IF Raised(l.out) THEN l @@ [linked |-> TRUE]
  ELSE IF ~l.out.value
       THEN [l EXCEPT !.out = Raise("NotImplementedError")] @@ [linked |-> TRUE]
       ELSE [l EXCEPT !.out = Return(l.plugin)] @@ [linked |-> TRUE]

\* DatamanagerClient.solar_api, given the answer the device would give to a
\* version request: negotiates only while no dialect is bound.
solar_api(reply) ==
  IF plugin = NoPlugin
  THEN LET l == link_solar_api_plugin(reply) IN
       IF Raised(l.out) THEN l @@ [linked |-> TRUE]
       ELSE IF ~l.out.value
            THEN [l EXCEPT !.out = Raise("NotImplementedError")] @@ [linked |-> TRUE]
            ELSE [l EXCEPT !.out = Return(l.plugin)] @@ [linked |-> TRUE]
  ELSE LinkResult(plugin, api_base, nplugins, Return(plugin)) @@ [linked |-> FALSE]

----------------------------------------------------------------------------
(* What the device may answer *)

StatusFull(code) == [Code |-> code, Reason |-> "", UserMessage |-> ""]
StatusNoMessage(code) == [Code |-> code, Reason |-> ""]
StatusBare(code) == [Code |-> code]
Statuses == {StatusFull(0), StatusBare(0), StatusFull(1), StatusNoMessage(1),
             StatusBare(1), StatusFull(255)}

Envelope(status, body) == [Head |-> [Status |-> status], Body |-> body]

\* Answers that carry no usable envelope.
BrokenReplies ==
  {ConnError, NotJson(200), NotJson(404), Json(200, <<>>),
   Json(200, [Head |-> <<>>]),
   Json(200, [Head |-> [Status |-> StatusFull(0)]]),
   Json(200, [Head |-> [Status |-> [Reason |-> ""]], Body |-> <<>>])}

EnvelopeReplies(bodies) ==
  BrokenReplies \cup {Json(200, Envelope(s, b)) : s \in Statuses, b \in bodies}

\* A well-formed envelope: Head, Head.Status with a Code, and Body.
WellFormed(reply) ==
  /\ reply.reply = "json"
  /\ {"Head", "Body"} \subseteq DOMAIN reply.doc
  /\ "Status" \in DOMAIN reply.doc.Head
  /\ "Code" \in DOMAIN reply.doc.Head.Status

\* Answers to GetAPIVersion.cgi: APIVersion and BaseURL, each possibly absent.
VersionValues == {Num(0, 0), Num(1, 0), Num(2, 0), Str("1"), Str("v1")}
BaseURLValues == {AbsRef(<<"solar_api", "v1", "">>),
                  RelRef(<<>>)}
VersionDocs ==
  {[APIVersion |-> v, BaseURL |-> b] : v \in VersionValues, b \in BaseURLValues}
  \cup {[APIVersion |-> v] : v \in VersionValues}
  \cup {[BaseURL |-> b] : b \in BaseURLValues}
VersionReplies ==
  {ConnError, NotJson(200), NotJson(404), Json(200, <<>>)}
  \cup {Json(200, d) : d \in VersionDocs}

NoReply == [reply |-> "none"]
OpaqueBody == [Data |-> [x |-> Num(1, 0)]]

----------------------------------------------------------------------------
(* solarapi.SolarApiV0 / SolarApiV1: request construction *)

\* mappings.Scopes, as str() gives them
ScopeSystem == "System"
ScopeDevice == "Device"

\* The keyword arguments a caller may pass to inverter_realtime.
RealtimeKwargs == {<<>>, [device_id |-> 3], [device_id |-> 3, collection |-> "MinMaxInverterData"]}

collection(kwargs, default) ==
  IF "collection" \in DOMAIN kwargs THEN kwargs.collection ELSE default

\* SolarApiV0.inverter_realtime: the params of its request.
V0_inverter_realtime(kwargs) ==
  IF "device_id" \in DOMAIN kwargs
  THEN [Scope |-> ScopeDevice,
        DataCollection |-> collection(kwargs, "CommonInverterData"),
        DeviceIndex |-> kwargs.device_id]
  ELSE [Scope |-> ScopeSystem,
        DataCollection |-> collection(kwargs, "CommonInverterData")]

\* SolarApiV1.inverter_realtime: the params of its request.
V1_inverter_realtime(kwargs) ==
  IF "device_id" \in DOMAIN kwargs
  THEN [Scope |-> ScopeDevice,
        DataCollection |-> collection(kwargs, "CommonInverterData"),
        DeviceId |-> kwargs.device_id]
  ELSE [Scope |-> ScopeSystem,
        DataCollection |-> collection(kwargs, "CommonInverterData")]

----------------------------------------------------------------------------
(* utils.VFS: the data store *)

\* VFS.put(key, point): the latest point of a key replaces the one before.
put(store, key, p) == (key :> p) @@ store

----------------------------------------------------------------------------
(* solarapi.SolarApiV1: unpacking a powerflow body into data points *)

\* The state of an unpack call in progress: the store as written so far and
\* the exception that ended the call ("" while it runs).
Acc(store, exc) == [store |-> store, exc |-> exc]

\* float(s) for the strings the device may send as numbers.
DecimalStrings == [s \in {"57.3", "100", "0"} |->
  IF s = "57.3" THEN Num(573, 1) ELSE IF s = "100" THEN Num(100, 0) ELSE Num(0, 0)]

\* float(v): a number, or the name of the exception float raises.
float(v) ==
  IF IsNum(v) THEN [val |-> v]
  ELSE IF IsBool(v) THEN [val |-> Num(IF v.bool THEN 1 ELSE 0, 0)]
  ELSE IF IsStr(v) THEN (IF v.str \in DOMAIN DecimalStrings
                         THEN [val |-> DecimalStrings[v.str]]
                         ELSE [exc |-> "ValueError"])
  ELSE [exc |-> "TypeError"]

\* A converter that stores the percentage as the device sent it.
PercentToRatio_undivided(v) == float(v)

\* lambda v: float(v)/100
PercentToRatio(v) ==
  LET f == float(v) IN
  IF "exc" \in DOMAIN f THEN f ELSE [val |-> Num(f.val.num, f.val.exp + 2)]

\* One call of a value converter: "" is no converter.
vconv(name, v) == IF name = "percent" THEN PercentToRatio(v) ELSE [val |-> v]

\* An _unpack_item that skips a key only when the object lacks it.
_unpack_item_skips_absent_only(acc, data, key, path, conv, kwargs) ==
  IF acc.exc # "" THEN acc
  ELSE IF key \notin DOMAIN data THEN acc
  ELSE LET c == vconv(conv, data[key]) IN
       IF "exc" \in DOMAIN c THEN Acc(acc.store, c.exc)
       ELSE Acc(put(acc.store, join(path, key), kwargs @@ [v |-> c.val]), "")

\* SolarApiV1._unpack_item(data, key, path=..., **kwargs): kwargs are the
\* keyword arguments left once path and vconv are taken out.
_unpack_item(acc, data, key, path, conv, kwargs) ==
  IF acc.exc # "" THEN acc
  ELSE IF ~Truthy(Get(data, key)) THEN acc
  ELSE LET c == vconv(conv, data[key]) IN
       IF "exc" \in DOMAIN c THEN Acc(acc.store, c.exc)
       ELSE IF "unit" \in DOMAIN kwargs /\ "u" \notin DOMAIN kwargs
            THEN Acc(acc.store, "KeyError")
            ELSE Acc(put(acc.store, join(path, key), kwargs @@ [v |-> c.val]), "")

\* One field of a fixed field set: its key, its unit ("" for none) and its
\* value converter ("" for none).
Field(key, unit, conv) == [key |-> key, unit |-> unit, conv |-> conv]

SiteFields ==
  << Field("Mode", "", ""), Field("BatteryStandby", "", ""),
     Field("BackupMode", "", ""), Field("P_Grid", "W", ""),
     Field("P_Load", "W", ""), Field("P_Akku", "W", ""), Field("P_PV", "W", ""),
     Field("rel_SelfConsumption", "/", "percent"),
     Field("rel_Autonomy", "/", "percent"), Field("Meter_Location", "", ""),
     Field("E_Day", "Wh", ""), Field("E_Year", "Wh", ""),
     Field("E_Total", "Wh", "") >>

InverterFields ==
  << Field("DT", "", ""), Field("P", "W", ""), Field("SOC", "/", "percent"),
     Field("CID", "", ""), Field("Battery_Mode", "", ""),
     Field("E_Day", "Wh", ""), Field("E_Year", "Wh", ""),
     Field("E_Total", "Wh", "") >>

OhmpilotFields ==
  << Field("P_AC_Total", "W", ""), Field("State", "", ""),
     Field("Temperature", "Cel", "") >>

SecondaryMeterFields ==
  << Field("P", "W", ""), Field("MLoc", "", ""), Field("Label", "", ""),
     Field("Category", "", "") >>

\* The keyword arguments of one _unpack_item call: common, plus u for a unit.
ItemKwargs(common, f) == IF f.unit = "" THEN common ELSE [u |-> f.unit] @@ common

\* The _unpack_item calls for the fields f[i..] of one object, in order.
RECURSIVE UnpackFields(_, _, _, _, _, _)
UnpackFields(acc, data, path, common, fields, i) ==
  IF i > Len(fields) THEN acc
  ELSE UnpackFields(
         _unpack_item(acc, data, fields[i].key, path, fields[i].conv,
                      ItemKwargs(common, fields[i])),
         data, path, common, fields, i + 1)

\* dict.items() of an object, in document order: device ids ascend, then
\* class names, then field names.
DeviceIds == [i \in 1..MaxDev |-> ToString(i)]
KeyOrder == DeviceIds \o <<"Inverter", "Meter", "SensorCard", "StringControl", "System",
                           "DT", "Serial">>
Items(d) == SelectSeq(KeyOrder, LAMBDA id : id \in DOMAIN d)

\* The keyword arguments shared by the calls for one inverter, one Ohmpilot
\* and one secondary meter, and the path each is stored under.
InverterCommon(ts) == [ts |-> ts]
InverterPath(id) == join("Inverters", id)
OhmpilotCommon(ts) == [t |-> ts]
OhmpilotPath(id) == "Smartloads/Ohmpilots"
SecondaryMeterCommon(ts) == [t |-> ts]
SecondaryMeterPath(id) == "SecondaryMeters"

\* The three loops over devices: the body of one loop for ids[i..].
RECURSIVE UnpackInverters(_, _, _, _, _)
UnpackInverters(acc, devices, ids, ts, i) ==
  IF i > Len(ids) THEN acc
  ELSE UnpackInverters(
         UnpackFields(acc, devices[ids[i]], InverterPath(ids[i]),
                      InverterCommon(ts), InverterFields, 1),
         devices, ids, ts, i + 1)

RECURSIVE UnpackOhmpilots(_, _, _, _, _)
UnpackOhmpilots(acc, devices, ids, ts, i) ==
  IF i > Len(ids) THEN acc
  ELSE UnpackOhmpilots(
         UnpackFields(acc, devices[ids[i]], OhmpilotPath(ids[i]),
                      OhmpilotCommon(ts), OhmpilotFields, 1),
         devices, ids, ts, i + 1)

RECURSIVE UnpackSecondaryMeters(_, _, _, _, _)
UnpackSecondaryMeters(acc, devices, ids, ts, i) ==
  IF i > Len(ids) THEN acc
  ELSE UnpackSecondaryMeters(
         UnpackFields(acc, devices[ids[i]], SecondaryMeterPath(ids[i]),
                      SecondaryMeterCommon(ts), SecondaryMeterFields, 1),
         devices, ids, ts, i + 1)

\* The object the name `data` is bound to after a loop `for (id, data) in
\* devices.items()`: the last device when there is one, else what it was.
DataAfterLoop(data, devices) ==
  IF Items(devices) = <<>> THEN data
  ELSE devices[Items(devices)[Len(Items(devices))]]

\* SolarApiV1._unpack_powerflow_realtime(data), with ts the value of
\* time.time(): the store afterwards and the exception that ended the call.
_unpack_powerflow_realtime(store, data, ts) ==
  IF "Site" \notin DOMAIN data THEN Acc(store, "KeyError")
  ELSE
    LET afterSite == UnpackFields(Acc(store, ""), data.Site, "site",
                                  [t |-> ts], SiteFields, 1)
        inverters == GetOrEmpty(data, "Inverters")
        afterInverters == UnpackInverters(afterSite, inverters, Items(inverters), ts, 1)
        data2 == DataAfterLoop(data, inverters)
        ohmpilots == GetOrEmpty(GetOrEmpty(data2, "Smartloads"), "Ohmpilots")
        afterOhmpilots == UnpackOhmpilots(afterInverters, ohmpilots, Items(ohmpilots), ts, 1)
        data3 == DataAfterLoop(data2, ohmpilots)
        meters == GetOrEmpty(data3, "SecondaryMeters")
    IN UnpackSecondaryMeters(afterOhmpilots, meters, Items(meters), ts, 1)

\* SolarApiV1.powerflow_realtime, given the device's answer and the time:
\* the store afterwards and the outcome.
powerflow_realtime(reply, ts) ==
  LET v == api_request(reply) IN
  IF Raised(v) THEN [store |-> vfs, out |-> v]
  ELSE IF v.value = None THEN [store |-> vfs, out |-> Raise("AttributeError")]
  ELSE IF "Data" \notin DOMAIN v.value.body THEN [store |-> vfs, out |-> Raise("KeyError")]
  ELSE LET u == _unpack_powerflow_realtime(vfs, v.value.body.Data, ts) IN
       [store |-> u.store, out |-> IF u.exc = "" THEN v ELSE Raise(u.exc)]

----------------------------------------------------------------------------
(* solarapi.Device and the active_devices / inverter_info operations *)

\* mappings.DeviceTypes.model_name(device_type)
model_name(dt) == IF dt = Num(1, 0) THEN "Fronius Symo" ELSE "Unknown"

\* Device(device_class=..., device_id=..., device_type=..., serial=..., channels=...)
Device(class, id, info) ==
  [device_class |-> class, device_id |-> id, device_type |-> info.DT,
   model_name |-> model_name(info.DT),
   serial |-> Get(info, "Serial"), channel_names |-> Get(info, "ChannelNames")]

\* The V0 dialect builds its Device without serial and channels.
DeviceV0(class, id, info) ==
  [device_class |-> class, device_id |-> id, device_type |-> info.DT,
   model_name |-> model_name(info.DT), serial |-> Null, channel_names |-> Null]

\* The state of an active_devices call in progress: the map built so far,
\* the exception that ended the call ("" while it runs), the requests sent.
Devs(devs, exc, reqs) == [devs |-> devs, exc |-> exc, reqs |-> reqs]

\* for (device_id, d) in data.items(): devs[join(class, device_id)] = Device(..)
RECURSIVE AddDevices(_, _, _, _, _, _)
AddDevices(acc, class, data, ids, v0, i) ==
  IF i > Len(ids) \/ acc.exc # "" THEN acc
  ELSE IF "DT" \notin DOMAIN data[ids[i]]
       THEN [acc EXCEPT !.exc = "KeyError"]
       ELSE AddDevices(
              [acc EXCEPT !.devs = put(acc.devs, join(class, ids[i]),
                 IF v0 THEN DeviceV0(class, ids[i], data[ids[i]])
                 ELSE Device(class, ids[i], data[ids[i]]))],
              class, data, ids, v0, i + 1)

\* mappings.DeviceClasses: the names DeviceClasses[name] knows.
DeviceClasses == {"System", "Inverter", "SensorCard", "StringControl", "Meter",
                  "Storage", "Ohmpilot"}

\* for (device_class, device_list) in data.items(): the flat loop for each;
\* DeviceClasses[device_class] fails for a name it does not know.
RECURSIVE AddSystemDevices(_, _, _, _)
AddSystemDevices(acc, data, classes, i) ==
  IF i > Len(classes) \/ acc.exc # "" THEN acc
  ELSE IF classes[i] \notin DeviceClasses /\ Items(data[classes[i]]) # <<>>
       THEN [acc EXCEPT !.exc = "KeyError"]
       ELSE AddSystemDevices(
              AddDevices(acc, classes[i], data[classes[i]], Items(data[classes[i]]), FALSE, 1),
              data, classes, i + 1)

ActiveDeviceRequest(class) ==
  Request(api_base, Endpoint("GetActiveDeviceInfo.cgi"), [DeviceClass |-> class])

\* The answer to one GetActiveDeviceInfo.cgi request, or the exception that
\* reading resp.body['Data'] raises.
ActiveDeviceData(reply) ==
  LET resp == api_request(reply) IN
  IF Raised(resp) THEN [exc |-> resp.exc]
  ELSE IF resp.value = None THEN [exc |-> "AttributeError"]
  ELSE IF "Data" \notin DOMAIN resp.value.body THEN [exc |-> "KeyError"]
  ELSE [data |-> resp.value.body.Data]

\* kwargs.get('device_classes', set([DeviceClasses.System]))
device_classes(kwargs) ==
  IF "device_classes" \in DOMAIN kwargs THEN kwargs.device_classes ELSE {"System"}

\* SolarApiV0.active_devices: the classes it queries.
V0_device_classes(kwargs) ==
  IF device_classes(kwargs) = {"System"}
  THEN {"Inverter", "SensorCard", "StringControl"}
  ELSE device_classes(kwargs)

\* SolarApiV0.active_devices: the loop over the classes order[i..], each
\* answered by replies[class].
RECURSIVE V0_active_devices_loop(_, _, _, _)
V0_active_devices_loop(acc, order, replies, i) ==
  IF i > Len(order) \/ acc.exc # "" THEN acc
  ELSE LET class == order[i]
           sentNow == [acc EXCEPT !.reqs = Append(acc.reqs, ActiveDeviceRequest(class))]
           d == ActiveDeviceData(replies[class])
       IN IF "exc" \in DOMAIN d THEN [sentNow EXCEPT !.exc = d.exc]
          ELSE V0_active_devices_loop(
                 AddDevices(sentNow, class, d.data, Items(d.data), TRUE, 1),
                 order, replies, i + 1)

\* SolarApiV1.active_devices decoding every answer, System's too, as {id: info}.
RECURSIVE V1_active_devices_loop_flat_only(_, _, _, _)
V1_active_devices_loop_flat_only(acc, order, replies, i) ==
  IF i > Len(order) \/ acc.exc # "" THEN acc
  ELSE LET class == order[i]
           sentNow == [acc EXCEPT !.reqs = Append(acc.reqs, ActiveDeviceRequest(class))]
           d == ActiveDeviceData(replies[class])
       IN IF "exc" \in DOMAIN d THEN [sentNow EXCEPT !.exc = d.exc]
          ELSE V1_active_devices_loop_flat_only(
                 AddDevices(sentNow, class, d.data, Items(d.data), FALSE, 1),
                 order, replies, i + 1)

\* SolarApiV1.active_devices: the loop over the classes order[i..].
RECURSIVE V1_active_devices_loop(_, _, _, _)
V1_active_devices_loop(acc, order, replies, i) ==
  IF i > Len(order) \/ acc.exc # "" THEN acc
  ELSE LET class == order[i]
           sentNow == [acc EXCEPT !.reqs = Append(acc.reqs, ActiveDeviceRequest(class))]
           d == ActiveDeviceData(replies[class])
       IN IF "exc" \in DOMAIN d THEN [sentNow EXCEPT !.exc = d.exc]
          ELSE V1_active_devices_loop(
                 IF class = "System"
                 THEN AddSystemDevices(sentNow, d.data, Items(d.data), 1)
                 ELSE AddDevices(sentNow, class, d.data, Items(d.data), FALSE, 1),
                 order, replies, i + 1)

\* html.unescape(name) for the names the device may send.
unescape(name) == IF name = Str("A&amp;B") THEN Str("A&B") ELSE name

\* mappings.InverterStatusCodes.status_text(code)
inverter_status_text(code) == IF code = Num(7, 0) THEN "Running" ELSE "Unknown"

\* SolarApiCommon.inverter_info: the loop over the inverters ids[i..].
RECURSIVE inverter_info_loop(_, _, _, _)
inverter_info_loop(acc, data, ids, i) ==
  IF i > Len(ids) \/ acc.exc # "" THEN acc
  ELSE LET info == data[ids[i]] IN
       IF ~({"DT", "StatusCode", "CustomName"} \subseteq DOMAIN info)
       THEN [acc EXCEPT !.exc = "KeyError"]
       ELSE inverter_info_loop(
              [acc EXCEPT !.devs = put(acc.devs, join("Inverter", ids[i]),
                 [Model_Name |-> model_name(info.DT),
                  Status_Text |-> inverter_status_text(info.StatusCode),
                  CustomName |-> unescape(info.CustomName)] @@ info)],
              data, ids, i + 1)

\* SolarApiCommon.inverter_info, given the device's answer.
inverter_info(reply) ==
  LET d == ActiveDeviceData(reply) IN
  IF "exc" \in DOMAIN d THEN Raise(d.exc)
  ELSE LET r == inverter_info_loop(Devs(<<>>, "", <<>>), d.data, Items(d.data), 1) IN
       IF r.exc # "" THEN Raise(r.exc) ELSE Return(r.devs)

----------------------------------------------------------------------------
(* Inputs: what callers pass and what the device sends *)

Times == 1..MaxTime

\* Either no entry, or the key with one of the values.
Opt(key, values) == {<<>>} \cup {(key :> v) : v \in values}

\* Site objects: a boolean, a power and the percentages, each absent or not.
SiteObjects ==
  {a @@ b @@ c :
     a \in Opt("BackupMode", {Bool(FALSE)}),
     b \in {("P_PV" :> v) : v \in {Null, Num(0, 0), Num(5, 0)}},
     c \in Opt("rel_Autonomy", {Str("57.3"), Num(100, 0), Str("abc")})
           \cup {[rel_SelfConsumption |-> Num(25, 0), rel_Autonomy |-> Num(100, 0)]}}

\* Device i of a map in one of its variants.
InverterVariants == {"good", "idle", "null", "bad"}
InverterObject(variant, i) ==
  IF variant = "good" THEN [P |-> Num(100 + i, 0), SOC |-> Num(50, 0)]
  ELSE IF variant = "idle" THEN [P |-> Num(0, 0), SOC |-> Num(0, 0)]
  ELSE IF variant = "null" THEN [P |-> Null, DT |-> Num(1, 0)]
  ELSE [P |-> Num(100 + i, 0), SOC |-> Str("abc")]

OhmpilotVariants == {"good", "null"}
OhmpilotObject(variant, i) ==
  IF variant = "good" THEN [P_AC_Total |-> Num(200 + i, 0), State |-> Str("normal")]
  ELSE [P_AC_Total |-> Null, State |-> Str("normal")]

MeterVariants == {"good", "zero"}
MeterObject(variant, i) ==
  IF variant = "good" THEN [P |-> Num(300 + i, 0), Label |-> Str("pump")]
  ELSE [P |-> Num(0, 0), Label |-> Str("pump")]

\* Maps of n devices "1".."n": the first n-1 good, the last in any variant.
DeviceObject(group, variant, i) ==
  IF group = "Inverters" THEN InverterObject(variant, i)
  ELSE IF group = "Ohmpilots" THEN OhmpilotObject(variant, i)
  ELSE MeterObject(variant, i)

DeviceMap(n, variant, group) ==
  [id \in {ToString(i) : i \in 1..n} |->
     IF id = ToString(n) THEN DeviceObject(group, variant, n)
     ELSE DeviceObject(group, "good", CHOOSE i \in 1..n : ToString(i) = id)]

InverterMaps ==
  {<<>>} \cup {DeviceMap(n, v, "Inverters") : n \in 1..MaxDev, v \in InverterVariants}
OhmpilotMaps ==
  {<<>>} \cup {DeviceMap(n, v, "Ohmpilots") : n \in 1..MaxDev, v \in OhmpilotVariants}
MeterMaps ==
  {<<>>} \cup {DeviceMap(n, v, "SecondaryMeters") : n \in 1..MaxDev, v \in MeterVariants}

\* The Data objects of a powerflow response: every group present or absent.
PowerflowData ==
  {a @@ b @@ c @@ d :
     a \in Opt("Site", SiteObjects),
     b \in Opt("Inverters", InverterMaps),
     c \in Opt("Smartloads", {[Ohmpilots |-> m] : m \in OhmpilotMaps}),
     d \in Opt("SecondaryMeters", MeterMaps)}

\* Replies to GetPowerFlowRealtimeData.fcgi.
PowerflowReplies ==
  EnvelopeReplies({<<>>}) \cup
  {Json(200, Envelope(StatusFull(0), [Data |-> d])) : d \in PowerflowData}

\* The few of them used when powerflow_realtime is one operation among others.
SmallPowerflowData ==
  {[Site |-> [P_PV |-> Num(5, 0)]],
   [Site |-> [P_PV |-> Num(5, 0), rel_Autonomy |-> Str("abc")]],
   [Inverters |-> <<>>]}
SmallPowerflowReplies ==
  EnvelopeReplies({<<>>}) \cup
  {Json(200, Envelope(StatusFull(0), [Data |-> d])) : d \in SmallPowerflowData}

\* A store written by an earlier call, at time 0.
OldPoint(n) == [v |-> Num(n, 0), u |-> "W", t |-> 0]
OldStore ==
  ("site/P_PV" :> OldPoint(1)) @@ ("Inverters/1/P" :> OldPoint(2)) @@
  ("Smartloads/Ohmpilots/P_AC_Total" :> OldPoint(3)) @@
  ("SecondaryMeters/P" :> OldPoint(4))
PriorStores == {<<>>, OldStore}

\* Replies to GetActiveDeviceInfo.cgi: a status that is not ok, the flat
\* shape {id: info} and the nested shape {class: {id: info}}.
DeviceInfo(i) ==
  IF i = 1 THEN [DT |-> Num(1, 0)]
  ELSE [DT |-> Num(100 + i, 0), Serial |-> Str("ABC"),
        ChannelNames |-> Str("Temperature " \o ToString(i))]
FlatDevices(n) == [id \in {ToString(i) : i \in 1..n} |->
                     DeviceInfo(CHOOSE i \in 1..n : ToString(i) = id)]
NestedDevices == [Inverter |-> FlatDevices(MaxDev), Meter |-> FlatDevices(1)]
DeviceReplies ==
  {Json(200, Envelope(StatusFull(1), <<>>)),
   Json(200, Envelope(StatusFull(0), [Data |-> FlatDevices(MaxDev)])),
   Json(200, Envelope(StatusFull(0), [Data |-> NestedDevices]))}

\* The device_classes a caller may pass to active_devices.
ActiveDevicesKwargs ==
  {<<>>} \cup {[device_classes |-> c] :
                 c \in {{"System"}, {"Inverter"}, {"System", "Inverter"},
                        {"Inverter", "Meter"}}}

\* The orders in which a loop may visit the elements of a set.
Orders(S) == {o \in [1..Cardinality(S) -> S] : \A i, j \in DOMAIN o : o[i] = o[j] => i = j}

\* Replies to GetInverterInfo.cgi.
InverterInfoData ==
  {<<>>,
   ("1" :> [DT |-> Num(1, 0), StatusCode |-> Num(7, 0), CustomName |-> Str("A&amp;B")]),
   ("1" :> [DT |-> Num(1, 0), StatusCode |-> Num(7, 0)])}
InverterInfoReplies ==
  EnvelopeReplies({<<>>}) \cup
  {Json(200, Envelope(StatusFull(0), [Data |-> d])) : d \in InverterInfoData}

----------------------------------------------------------------------------
(* The operations a caller performs on one client *)

Init ==
  /\ plugin = NoPlugin
  /\ api_base = datalogger_url
  /\ vfs = <<>>
  /\ nplugins = 0
  /\ held = NoPlugin
  /\ sent = <<>>
  /\ last = [op |-> "init"]

\* await client.solar_api
SolarApi ==
  \E reply \in VersionReplies :
    LET r == solar_api(reply) IN
    /\ plugin' = r.plugin
    /\ api_base' = r.api_base
    /\ nplugins' = r.nplugins
    /\ held' = IF Returned(r.out) THEN r.out.value ELSE held
    /\ sent' = IF r.linked THEN <<Request(api_base, VersionEndpoint, NoParams)>>
               ELSE <<>>
    /\ last' = [op |-> "solar_api",
                reply |-> IF r.linked THEN reply ELSE NoReply,
                out |-> r.out]
    /\ UNCHANGED vfs

\* await client.api_request(endpoint)
ApiRequest ==
  \E reply \in EnvelopeReplies({OpaqueBody}) :
    /\ sent' = <<Request(api_base, Endpoint("GetLoggerInfo.cgi"), NoParams)>>
    /\ last' = [op |-> "api_request", reply |-> reply, out |-> api_request(reply)]
    /\ UNCHANGED <<plugin, api_base, vfs, nplugins, held>>

\* await api.inverter_realtime(**kwargs) on the dialect the caller holds
InverterRealtime ==
  /\ held # NoPlugin
  /\ \E kwargs \in RealtimeKwargs, reply \in EnvelopeReplies({OpaqueBody}) :
       LET params == IF held.kind = "V0" THEN V0_inverter_realtime(kwargs)
                     ELSE V1_inverter_realtime(kwargs)
       IN
       /\ sent' = <<Request(api_base, Endpoint("GetInverterRealtimeData.cgi"), params)>>
       /\ last' = [op |-> "inverter_realtime", dialect |-> held.kind,
                   kwargs |-> kwargs, reply |-> reply, out |-> api_request(reply)]
       /\ UNCHANGED <<plugin, api_base, vfs, nplugins, held>>

\* await api.active_devices(**kwargs): the loop visits the classes in some
\* order, and the device answers each request.
ActiveDevices ==
  /\ held # NoPlugin
  /\ \E kwargs \in ActiveDevicesKwargs :
       LET classes == IF held.kind = "V0" THEN V0_device_classes(kwargs)
                      ELSE device_classes(kwargs)
       IN
       \E order \in Orders(classes), replies \in [classes -> DeviceReplies] :
         LET r == IF held.kind = "V0"
                  THEN V0_active_devices_loop(Devs(<<>>, "", <<>>), order, replies, 1)
                  ELSE V1_active_devices_loop(Devs(<<>>, "", <<>>), order, replies, 1)
         IN
         /\ sent' = r.reqs
         /\ last' = [op |-> "active_devices", dialect |-> held.kind,
                     kwargs |-> kwargs, replies |-> replies,
                     out |-> IF r.exc # "" THEN Raise(r.exc) ELSE Return(r.devs)]
         /\ UNCHANGED <<plugin, api_base, vfs, nplugins, held>>

\* await api.inverter_info()
InverterInfo ==
  /\ held # NoPlugin
  /\ \E reply \in InverterInfoReplies :
       /\ sent' = <<Request(api_base, Endpoint("GetInverterInfo.cgi"), NoParams)>>
       /\ last' = [op |-> "inverter_info", dialect |-> held.kind,
                   reply |-> reply, out |-> inverter_info(reply)]
       /\ UNCHANGED <<plugin, api_base, vfs, nplugins, held>>

\* await api.powerflow_realtime(), answered by reply at time ts; only the V1
\* dialect has the method.
PowerflowRealtime(reply, ts) ==
  /\ held # NoPlugin
  /\ IF held.kind = "V1"
     THEN LET r == powerflow_realtime(reply, ts) IN
          /\ vfs' = r.store
          /\ sent' = <<Request(api_base, Endpoint("GetPowerFlowRealtimeData.fcgi"), NoParams)>>
          /\ last' = [op |-> "powerflow_realtime", dialect |-> held.kind,
                      reply |-> reply, ts |-> ts, out |-> r.out]
     ELSE /\ vfs' = vfs
          /\ sent' = <<>>
          /\ last' = [op |-> "powerflow_realtime", dialect |-> held.kind,
                      reply |-> NoReply, ts |-> ts, out |-> Raise("AttributeError")]
  /\ UNCHANGED <<plugin, api_base, nplugins, held>>

Powerflow ==
  \E reply \in SmallPowerflowReplies, ts \in Times : PowerflowRealtime(reply, ts)

Next ==
  \/ SolarApi
  \/ ApiRequest
  \/ InverterRealtime
  \/ ActiveDevices
  \/ InverterInfo
  \/ Powerflow

Spec == Init /\ [][Next]_vars

----------------------------------------------------------------------------
(* One powerflow_realtime call on a client bound to the V1 dialect: the      *)
(* device's answer, the time and the store before the call are drawn at the *)
(* start.                                                                   *)

V1Base == Url("http://datamanager", <<"solar_api", "v1", "">>)

InitPowerflow ==
  /\ plugin = Plugin("V1", 1)
  /\ api_base = V1Base
  /\ nplugins = 1
  /\ held = Plugin("V1", 1)
  /\ sent = <<>>
  /\ vfs \in PriorStores
  /\ \E reply \in PowerflowReplies, ts \in Times :
       last = [op |-> "pending", reply |-> reply, ts |-> ts]

PowerflowPending ==
  /\ last.op = "pending"
  /\ PowerflowRealtime(last.reply, last.ts)

SpecPowerflow == InitPowerflow /\ [][PowerflowPending]_vars

----------------------------------------------------------------------------
(* Version negotiation *)

IsLinkAttempt == last.op = "solar_api" /\ last.reply # NoReply

\* The version request yielded no usable document: raw_request returned None.
NoVersionDocument(reply) == reply.reply = "not_json" \/ (reply.reply = "json" /\ reply.doc = <<>>)

\* The version document names a version that is neither 0 nor 1.
UnknownVersion(reply) ==
  /\ reply.reply = "json"
  /\ "APIVersion" \in DOMAIN reply.doc
  /\ PyStr(reply.doc.APIVersion) \notin {"0", "1"}

\* C1: when the version request yields no usable document, the access to
\* solar_api does not fail: it hands out the V0 dialect, which is then bound;
\* and inverter_realtime(device_id=3) on the V0 dialect sends one
\* GetInverterRealtimeData.cgi request with Scope=Device and DeviceIndex=3.
C1_FallbackToV0Succeeds ==
  /\ (IsLinkAttempt /\ NoVersionDocument(last.reply))
       => /\ Returned(last.out)
          /\ last.out.value.kind = "V0"
          /\ plugin = last.out.value
  /\ (last.op = "inverter_realtime" /\ last.dialect = "V0"
        /\ "device_id" \in DOMAIN last.kwargs)
       => /\ Len(sent) = 1
          /\ sent[1].url.path[Len(sent[1].url.path)] = "GetInverterRealtimeData.cgi"
          /\ sent[1].params.Scope = "Device"
          /\ sent[1].params.DeviceIndex = last.kwargs.device_id

\* C2: a version that is neither 0 nor 1 fails the attempt: the access raises,
\* no dialect is bound, the base URL is unchanged, and the attempt sent exactly
\* one request, the version request.
C2_UnknownVersionFails ==
  [][(last'.op = "solar_api" /\ last'.reply # NoReply /\ UnknownVersion(last'.reply))
       => /\ Raised(last'.out)
          /\ plugin' = NoPlugin
          /\ api_base' = api_base
          /\ Len(sent') = 1
          /\ IsVersionRequest(sent'[1])]_vars

C2_Witness ==
  /\ IsLinkAttempt
  /\ UnknownVersion(last.reply)
  /\ last.out = Raise("NotImplementedError")
  /\ "BaseURL" \in DOMAIN last.reply.doc

\* C3: once an access to solar_api has handed out a dialect, every step keeps
\* that dialect object bound and the base URL as it is, sends no version
\* request, and every later access returns that same object.
C3_BoundDialectIsReused ==
  [][held # NoPlugin
       => /\ plugin' = held
          /\ held' = held
          /\ api_base' = api_base
          /\ \A i \in 1..Len(sent') : ~IsVersionRequest(sent'[i])
          /\ (last'.op = "solar_api" => last'.out = Return(held))]_vars

\* A later access, after a negotiation that completed and moved the base URL.
C3_Witness ==
  /\ last.op = "solar_api"
  /\ last.reply = NoReply
  /\ last.out = Return(held)
  /\ held # NoPlugin
  /\ api_base # datalogger_url

----------------------------------------------------------------------------
(* Responses whose status is not ok *)

StatusCode(reply) == reply.doc.Head.Status.Code
NotOk(reply) == WellFormed(reply) /\ ~status_ok(StatusCode(reply))

\* C4: for a well-formed envelope whose status code is not in the success
\* set, api_request returns None and does not raise, whatever else the
\* status holds; it returns a response object only for a status that is ok.
C4_NotOkReturnsNone ==
  last.op \in {"api_request", "inverter_realtime"}
    => /\ NotOk(last.reply) => last.out = Return(None)
       /\ (Returned(last.out) /\ last.out.value # None)
            => (WellFormed(last.reply) /\ status_ok(StatusCode(last.reply)))

\* C5: when the device answers powerflow_realtime, inverter_info or a request
\* of active_devices with a well-formed envelope whose status is not ok, the
\* operation does not raise.
C5_NotOkDoesNotRaise ==
  /\ (last.op \in {"powerflow_realtime", "inverter_info"} /\ last.reply # NoReply
        /\ NotOk(last.reply))
       => Returned(last.out)
  /\ (last.op = "active_devices" /\ sent # <<>>
        /\ NotOk(last.replies[sent[Len(sent)].params.DeviceClass]))
       => Returned(last.out)

\* C10: V0 active_devices asked for a set of classes that contains System
\* sends no request with DeviceClass=System, and when it returns it has sent
\* one request for each of Inverter, SensorCard and StringControl.
C10_V0SystemIsExpanded ==
  (last.op = "active_devices" /\ last.dialect = "V0"
     /\ "System" \in device_classes(last.kwargs))
    => /\ \A i \in 1..Len(sent) : sent[i].params.DeviceClass # "System"
       /\ Returned(last.out)
            => \A c \in {"Inverter", "SensorCard", "StringControl"} :
                 Cardinality({i \in 1..Len(sent) : sent[i].params.DeviceClass = c}) = 1

----------------------------------------------------------------------------
(* Unpacking a powerflow body *)

\* The Data object of the answer the last powerflow_realtime call unpacked.
Unpacked(l) ==
  /\ l.op = "powerflow_realtime"
  /\ l.reply # NoReply
  /\ WellFormed(l.reply)
  /\ status_ok(StatusCode(l.reply))
  /\ "Data" \in DOMAIN l.reply.doc.Body
SourceData(l) == l.reply.doc.Body.Data

\* The objects of the source stored under one path, by group.
Ohmpilots(data) == GetOrEmpty(GetOrEmpty(data, "Smartloads"), "Ohmpilots")
SecondaryMeters(data) == GetOrEmpty(data, "SecondaryMeters")
Inverters(data) == GetOrEmpty(data, "Inverters")
Keys(fields) == {fields[i].key : i \in 1..Len(fields)}

\* The key was written by the step: it is new, or its point changed.
Written(key, before, after) ==
  key \in DOMAIN after /\ (key \in DOMAIN before => after[key] # before[key])

C7_OptionalGroupsAreUnpacked ==
  [][(Unpacked(last') /\ "Site" \in DOMAIN SourceData(last') /\ Returned(last'.out))
       => LET data == SourceData(last') IN
          /\ \A id \in DOMAIN Ohmpilots(data) : \A f \in Keys(OhmpilotFields) :
               Truthy(Get(Ohmpilots(data)[id], f))
                 => Written(join("Smartloads/Ohmpilots", f), vfs, vfs')
          /\ \A id \in DOMAIN SecondaryMeters(data) : \A f \in Keys(SecondaryMeterFields) :
               Truthy(Get(SecondaryMeters(data)[id], f))
                 => Written(join("SecondaryMeters", f), vfs, vfs')]_vars

SourcesByPath(data) ==
  [path \in {"site", "Smartloads/Ohmpilots", "SecondaryMeters"}
            \cup {join("Inverters", id) : id \in DOMAIN Inverters(data)} |->
     IF path = "site" THEN {data.Site}
     ELSE IF path = "Smartloads/Ohmpilots"
          THEN {Ohmpilots(data)[id] : id \in DOMAIN Ohmpilots(data)}
     ELSE IF path = "SecondaryMeters"
          THEN {SecondaryMeters(data)[id] : id \in DOMAIN SecondaryMeters(data)}
     ELSE {Inverters(data)[id] : id \in {i \in DOMAIN Inverters(data) :
                                           join("Inverters", i) = path}}]

FieldsOfPath(path) ==
  IF path = "site" THEN Keys(SiteFields)
  ELSE IF path = "Smartloads/Ohmpilots" THEN Keys(OhmpilotFields)
  ELSE IF path = "SecondaryMeters" THEN Keys(SecondaryMeterFields)
  ELSE Keys(InverterFields)

Untouched(key, before, after) ==
  /\ key \in DOMAIN after <=> key \in DOMAIN before
  /\ key \in DOMAIN before => after[key] = before[key]

\* C9: a field that is absent or null in the source is not written: the key
\* join(path, field) is neither created nor overwritten by the call.
C9_AbsentOrNullIsNotWritten ==
  [][(Unpacked(last') /\ "Site" \in DOMAIN SourceData(last'))
       => LET src == SourcesByPath(SourceData(last')) IN
          \A path \in DOMAIN src : \A f \in FieldsOfPath(path) :
            (\A obj \in src[path] : Get(obj, f) = Null)
              => Untouched(join(path, f), vfs, vfs')]_vars

\* A call that stored rel_Autonomy and left the older point of the null
\* P_PV in place.
C9_Witness ==
  /\ Unpacked(last)
  /\ Returned(last.out)
  /\ "Site" \in DOMAIN SourceData(last)
  /\ Get(SourceData(last).Site, "P_PV") = Null
  /\ "site/P_PV" \in DOMAIN vfs
  /\ vfs["site/P_PV"] = OldPoint(1)
  /\ "site/rel_Autonomy" \in DOMAIN vfs
  /\ vfs["site/rel_Autonomy"].v = Num(573, 3)

----------------------------------------------------------------------------
(* SolarApiV1.active_devices: the nested System shape and the flat shape *)

\* The Data of an answer to GetActiveDeviceInfo.cgi whose status is ok.
OkData(reply) ==
  /\ WellFormed(reply)
  /\ status_ok(StatusCode(reply))
  /\ "Data" \in DOMAIN reply.doc.Body

\* {id: info}: every value is a device's info.
FlatShape(data) == \A id \in DOMAIN data : "DT" \in DOMAIN data[id]

\* {class: {id: info}}: every key is a device class, every value a flat map.
NestedShape(data) ==
  /\ DOMAIN data # {}
  /\ \A c \in DOMAIN data : c \in DeviceClasses /\ FlatShape(data[c])

\* The answer to the request for class has the shape of that class.
OwnShape(class, reply) ==
  /\ OkData(reply)
  /\ IF class = "System" THEN NestedShape(reply.doc.Body.Data)
     ELSE FlatShape(reply.doc.Body.Data)

\* The (class, id, info) triples an answer of its own shape describes.
Described(class, reply) ==
  LET data == reply.doc.Body.Data IN
  IF class = "System"
  THEN UNION {{<<c, id, data[c][id]>> : id \in DOMAIN data[c]} : c \in DOMAIN data}
  ELSE {<<class, id, data[id]>> : id \in DOMAIN data}

\* dev is the Device of the triple t.
Carries(dev, t) ==
  /\ dev.device_class = t[1]
  /\ dev.device_id = t[2]
  /\ dev.device_type = t[3].DT
  /\ dev.serial = Get(t[3], "Serial")
  /\ dev.channel_names = Get(t[3], "ChannelNames")

V1ActiveDevicesOwnShapes ==
  /\ last.op = "active_devices"
  /\ last.dialect = "V1"
  /\ \A c \in DOMAIN last.replies : OwnShape(c, last.replies[c])

----------------------------------------------------------------------------
(* Percentages are stored as ratios *)

RECURSIVE Pow10(_)
Pow10(e) == IF e = 0 THEN 1 ELSE 10 * Pow10(e - 1)

\* The number a source value denotes, as Num(m, e) = m / 10^e.
Denoted(v) == IF IsStr(v) THEN DecimalStrings[v.str] ELSE v

\* The source value is a number, or a decimal string, in the range 0..100.
InPercentRange(v) ==
  /\ IsNum(v) \/ (IsStr(v) /\ v.str \in DOMAIN DecimalStrings)
  /\ 0 <= Denoted(v).num
  /\ Denoted(v).num <= 100 * Pow10(Denoted(v).exp)

\* The stored number p is the source value v divided by 100.
IsHundredthOf(p, v) ==
  /\ IsNum(p)
  /\ p.num * Pow10(Denoted(v).exp) * 100 = Denoted(v).num * Pow10(p.exp)

InUnitRange(p) == IsNum(p) /\ 0 <= p.num /\ p.num <= Pow10(p.exp)

\* The percentage fields of a body: the key each is stored at and its source
\* value (Null when the object lacks it).
PercentageSources(data) ==
  {<<join("site", f), Get(GetOrEmpty(data, "Site"), f)>> :
     f \in {"rel_SelfConsumption", "rel_Autonomy"}}
  \cup {<<join(join("Inverters", id), "SOC"), Get(Inverters(data)[id], "SOC")>> :
          id \in DOMAIN Inverters(data)}

\* C12: when every percentage a powerflow body holds (rel_SelfConsumption,
\* rel_Autonomy, each inverter's SOC) is in the range 0..100, every point the
\* call writes for one of these fields holds the source value divided by 100,
\* which lies in 0..1.
C12_PercentagesAreRatios ==
  [][(Unpacked(last')
      /\ \A s \in PercentageSources(SourceData(last')) :
           s[2] # Null => InPercentRange(s[2]))
       => \A s \in PercentageSources(SourceData(last')) :
            Written(s[1], vfs, vfs')
              => /\ IsHundredthOf(vfs'[s[1]].v, s[2])
                 /\ InUnitRange(vfs'[s[1]].v)]_vars

\* C12 witness: one call stored 25 % as 0.25, 100 % as 1 and an inverter's
\* 50 % as 0.5.
C12_Witness ==
  /\ Unpacked(last)
  /\ Returned(last.out)
  /\ {"site/rel_SelfConsumption", "site/rel_Autonomy", "Inverters/1/SOC"}
       \subseteq DOMAIN vfs
  /\ SourceData(last).Site.rel_SelfConsumption = Num(25, 0)
  /\ vfs["site/rel_SelfConsumption"].v = Num(25, 2)
  /\ vfs["site/rel_Autonomy"].v = Num(100, 2)
  /\ vfs["Inverters/1/SOC"].v = Num(50, 2)

----------------------------------------------------------------------------
(* Fields holding 0 or false *)

\* C13: after an unpack call that completes, every field of the fixed field
\* set that the Site object or an inverter's object holds with a non-null
\* value, the number 0 and the boolean false included, has a data point
\* written at join(path, field).
C13_ZeroAndFalseAreStored ==
  [][(Unpacked(last') /\ "Site" \in DOMAIN SourceData(last') /\ Returned(last'.out))
       => LET data == SourceData(last') IN
          /\ \A f \in Keys(SiteFields) :
               Get(data.Site, f) # Null => Written(join("site", f), vfs, vfs')
          /\ \A id \in DOMAIN Inverters(data) : \A f \in Keys(InverterFields) :
               Get(Inverters(data)[id], f) # Null
                 => Written(join(join("Inverters", id), f), vfs, vfs')]_vars

----------------------------------------------------------------------------
(* One key for each entity's field *)

\* The groups of devices of a body and the fields unpacked for each.
DeviceGroups(data) ==
  {[devices |-> Inverters(data), fields |-> Keys(InverterFields)],
   [devices |-> Ohmpilots(data), fields |-> Keys(OhmpilotFields)],
   [devices |-> SecondaryMeters(data), fields |-> Keys(SecondaryMeterFields)]}

\* The call wrote a point holding the value v.
HoldsWritten(v, before, after) ==
  \E key \in DOMAIN after : Written(key, before, after) /\ after[key].v = v

----------------------------------------------------------------------------
(* A failed negotiation leaves no trace *)

\* C15: an access to solar_api whose negotiation fails leaves the client as
\* it was, with no dialect bound and the base URL unchanged; and an access
\* that sends no version request hands out only a dialect that an earlier,
\* successful negotiation handed out.
C15_FailedLinkLeavesClientUnbound ==
  [][/\ (last'.op = "solar_api" /\ last'.reply # NoReply /\ Raised(last'.out))
          => /\ plugin' = NoPlugin
             /\ plugin' = plugin
             /\ api_base' = api_base
     /\ (last'.op = "solar_api" /\ last'.reply = NoReply /\ Returned(last'.out))
          => /\ held # NoPlugin
             /\ last'.out.value = held]_vars

============================================================================
